---- MODULE Spec2Model ----
(***************************************************************************)
(* Kenya elections dashboard (src/app.py): a Streamlit script that is      *)
(* re-executed from top to bottom on every user interaction.  One script   *)
(* execution loads three documents through memoized loaders, reads the     *)
(* navigation radio and runs the branch of the selected view.              *)
(*                                                                         *)
(* Python dicts are functions with a string domain (a missing key is a key *)
(* outside DOMAIN), ordered dicts that the code iterates are sequences of  *)
(* <<key, value>> items, lists are sequences.  Percentages of the county   *)
(* document carry one decimal and are held as integer tenths (54.0 is      *)
(* 540); turnouts of the election document carry two decimals and are held *)
(* as integer hundredths (57.18 is 5718); scenario turnouts are whole      *)
(* percentages.                                                            *)
(***************************************************************************)
EXTENDS Integers, Sequences, FiniteSets, TLC

VARIABLES
    fs,             \* which of the three files can be opened and parsed
    election_file,  \* content of election_data.json
    county_file,    \* content of county_data.json
    cache,          \* st.cache_data: per loader <<>> (no entry) or <<value>>
    reads,          \* per loader, the values its body returned, in order
    pc,             \* position of the current script execution
    loads,          \* what each loader did in this execution
    data,           \* module global data: <<>> unbound or <<document>>
    county_data,    \* module global county_data
    kenya_geojson,  \* module global kenya_geojson: <<None>> or <<document>>
    page,           \* value of the navigation radio in this execution
    executed,       \* the view branch this execution entered
    outcome,        \* "pending", "rendered" or the uncaught exception
    messages,       \* the error / unavailability messages this execution emitted
    out,            \* what the executed view computed
    resolver        \* inputs and outputs of the Name Resolver functions

vars == <<fs, election_file, county_file, cache, reads, pc, loads, data,
          county_data, kenya_geojson, page, executed, outcome, messages, out,
          resolver>>

(***************************************************************************)
(* Bounds of the model.                                                    *)
(***************************************************************************)
MaxCounties == 2
MaxScenarios == 2
MaxNames == 3
\* the record of a loader's completed reads is kept up to this length
MaxReads == 2

(***************************************************************************)
(* Python dict and list helpers.                                           *)
(***************************************************************************)
EmptyDict == [k \in {} |-> 0]

Has(d, k) == k \in DOMAIN d

\* dict.get(k, default)
Get(d, k, default) == IF k \in DOMAIN d THEN d[k] ELSE default

Without(d, k) == [x \in (DOMAIN d) \ {k} |-> d[x]]

\* a dict built from items in order: a later item with the same key wins
RECURSIVE DictOf(_)
DictOf(items) ==
    IF Len(items) = 0 THEN EmptyDict
    ELSE LET last == items[Len(items)]
         IN  (last[1] :> last[2]) @@ DictOf(SubSeq(items, 1, Len(items) - 1))

RECURSIVE SumSeq(_)
SumSeq(s) == IF Len(s) = 0 THEN 0 ELSE s[1] + SumSeq(Tail(s))

\* [f(x) for x in s if p(x)] keeps the order of s
RECURSIVE SelectNames(_, _)
SelectNames(items, keep) ==
    IF Len(items) = 0 THEN <<>>
    ELSE (IF keep[1] THEN <<items[1][1]>> ELSE <<>>)
         \o SelectNames(Tail(items), Tail(keep))

Range(s) == {s[i] : i \in 1..Len(s)}

\* Python None
None == [none |-> TRUE]
IsNone(v) == "none" \in DOMAIN v

(***************************************************************************)
(* Name Resolver, app.py 59-74.                                            *)
(***************************************************************************)
\* an alias table in which two counties share one boundary name
COUNTY_NAME_ITEMS_SHARED ==
    << <<"Elgeyo Marakwet", "Tharaka">>,
       <<"Tharaka Nithi", "Tharaka">> >>

COUNTY_NAME_ITEMS ==
    << <<"Elgeyo Marakwet", "Keiyo-Marakwet">>,
       <<"Tharaka Nithi", "Tharaka">> >>

COUNTY_NAME_MAP == DictOf(COUNTY_NAME_ITEMS)

\* {v: k for k, v in COUNTY_NAME_MAP.items()}
GEOJSON_TO_DATA_MAP ==
    DictOf([i \in 1..Len(COUNTY_NAME_ITEMS) |->
              <<COUNTY_NAME_ITEMS[i][2], COUNTY_NAME_ITEMS[i][1]>>])

\* a resolver that looks the name up in the wrong direction
get_geojson_name_reversed(data_name) == Get(GEOJSON_TO_DATA_MAP, data_name, data_name)

get_geojson_name(data_name) == Get(COUNTY_NAME_MAP, data_name, data_name)

\* a reverse resolver that forgets the reverse table
get_data_name_identity(geojson_name) == geojson_name

get_data_name(geojson_name) == Get(GEOJSON_TO_DATA_MAP, geojson_name, geojson_name)

\* the names the resolver is exercised on: both sides of every alias pair
\* and names outside the table
Names ==
    {"Elgeyo Marakwet", "Keiyo-Marakwet", "Tharaka Nithi", "Tharaka",
     "Nairobi", "Mombasa"}

NoResolver == [input |-> <<>>, geo |-> <<>>, data |-> <<>>, round |-> <<>>,
               applied |-> FALSE]

(***************************************************************************)
(* The county document, county_data.json.  CountyRecord fields are         *)
(* optional: the records below are the shapes the views' accessors         *)
(* distinguish (a nested object absent, a field inside it absent).         *)
(***************************************************************************)
FullCounty ==
    [population |-> 1000000,
     registered_voters_2022 |-> 500000,
     youth_percentage |-> 680,
     results_2017 |-> [Kenyatta |-> 540, Odinga |-> 449, turnout |-> 780],
     results_2022 |-> [Ruto |-> 505, Odinga |-> 488, turnout |-> 650],
     prediction_2027 |->
        [projected_voters |-> 600000, new_youth_voters |-> 120000,
         likely_turnout |-> 700, swing_potential |-> "Very High",
         trend |-> "Competitive"]]

StrongholdCounty ==
    [population |-> 400000,
     registered_voters_2022 |-> 200000,
     youth_percentage |-> 650,
     results_2017 |-> [Kenyatta |-> 152, Odinga |-> 840, turnout |-> 720],
     results_2022 |-> [Ruto |-> 201, Odinga |-> 790, turnout |-> 705],
     prediction_2027 |->
        [projected_voters |-> 250000, new_youth_voters |-> 40000,
         likely_turnout |-> 720, swing_potential |-> "Very Low",
         trend |-> "Stable"]]

LeaningCounty ==
    [FullCounty EXCEPT !.prediction_2027.swing_potential = "Medium",
                       !.results_2022 = [Ruto |-> 620, Odinga |-> 370, turnout |-> 801]]

NoResults2017County ==
    Without([FullCounty EXCEPT !.prediction_2027.swing_potential = "High"],
            "results_2017")

NoResults2022County ==
    Without([StrongholdCounty EXCEPT !.prediction_2027.swing_potential = "Low"],
            "results_2022")

NoPredictionCounty ==
    Without(Without(StrongholdCounty, "prediction_2027"), "youth_percentage")

PartialCounty ==
    [population |-> 300000,
     results_2017 |-> [Kenyatta |-> 333],
     results_2022 |-> [Odinga |-> 611, turnout |-> 590],
     prediction_2027 |-> [projected_voters |-> 90000, likely_turnout |-> 610]]

CountyTemplates ==
    {FullCounty, StrongholdCounty, LeaningCounty, NoResults2017County,
     NoResults2022County, NoPredictionCounty, PartialCounty}

\* county names of the document, among them both sides of an alias pair
CountyNames == {"Nairobi", "Tharaka Nithi", "Tharaka"}

\* the items of the "counties" dict in insertion order; keys are distinct
CountyItems ==
    UNION {{s \in [1..n -> CountyNames \X CountyTemplates] :
              \A i, j \in 1..n : i # j => s[i][1] # s[j][1]} : n \in 1..MaxCounties}

RegionalTrends ==
    << <<"Mt_Kenya", [counties |-> <<"Tharaka Nithi">>, trend |-> "Shifting",
                      key_factor |-> "Economy"]>> >>

CountyDoc(items) == [counties |-> items, regional_trends |-> RegionalTrends]

BaseCountyDoc == CountyDoc(<< <<"Nairobi", FullCounty>>, <<"Tharaka Nithi", StrongholdCounty>> >>)

CountyDocs == {CountyDoc(items) : items \in CountyItems}

\* county_data['counties'][name] for a name that is a key
CountyIndex(items, name) == (CHOOSE i \in 1..Len(items) : items[i][1] = name)
CountyOf(items, name) == items[CountyIndex(items, name)][2]

(***************************************************************************)
(* The election document, election_data.json: "elections" keyed by the     *)
(* year as a string and the "predictions_2027" singleton.                  *)
(***************************************************************************)
ElectionYears == <<2002, 2007, 2013, 2017, 2022>>

\* str(year) for the years of the selectbox
YearKey == (2002 :> "2002") @@ (2007 :> "2007") @@ (2013 :> "2013")
           @@ (2017 :> "2017") @@ (2022 :> "2022")

Candidates(winner, party) ==
    << [name |-> winner, party |-> party, votes |-> 3646277, percentage |-> 6228],
       [name |-> "Runner-up", party |-> "Other", votes |-> 1835890, percentage |-> 3132] >>

ElectionRecord(registered, cast, turnout, winner, party) ==
    [registered_voters |-> registered, votes_cast |-> cast, turnout |-> turnout,
     candidates |-> Candidates(winner, party)]

Regional2002 ==
    << <<"Central", [Kibaki |-> 690, Kenyatta |-> 300, Nyachae |-> 10]>>,
       <<"Nyanza", [Kibaki |-> 610, Kenyatta |-> 80, Nyachae |-> 310]>> >>

\* the five records with the turnouts of the shipped data (app.py 153)
BaseElections ==
    [y \in {"2002", "2007", "2013", "2017", "2022"} |->
        CASE y = "2002" -> ElectionRecord(10451150, 5975910, 5718, "Mwai Kibaki", "NARC")
                             @@ [regional |-> Regional2002]
          [] y = "2007" -> ElectionRecord(14296180, 9877028, 6923, "Mwai Kibaki", "PNU")
          [] y = "2013" -> ElectionRecord(14352533, 12330028, 8591, "Uhuru Kenyatta", "TNA")
          [] y = "2017" -> ElectionRecord(19611423, 15593050, 7951, "Uhuru Kenyatta", "Jubilee")
          [] y = "2022" -> ElectionRecord(22120458, 14326751, 6477, "William Ruto", "UDA")]

\* other turnouts: the highest is not 2013, the lowest not 2002, 2022 above 2017
RisingElections ==
    [y \in DOMAIN BaseElections |->
        [BaseElections[y] EXCEPT !.turnout =
            CASE y = "2002" -> 6050 [] y = "2007" -> 5900 [] y = "2013" -> 7000
              [] y = "2017" -> 7125 [] y = "2022" -> 8010]]

ElectionsVariants ==
    {BaseElections, RisingElections,
     Without(BaseElections, "2013"),
     Without(BaseElections, "2002"),
     [BaseElections EXCEPT !["2002"] = Without(BaseElections["2002"], "regional")],
     [BaseElections EXCEPT !["2002"].regional = <<>>],
     [BaseElections EXCEPT !["2002"].regional =
         << <<"Coast", [Kibaki |-> 620, Kenyatta |-> 330]>> >>]}

ScenarioName(i) ==
    IF i = 1 THEN "High Youth Turnout"
    ELSE IF i = 2 THEN "Moderate Turnout" ELSE "Low Youth Turnout"

ScenarioTurnouts == {0, 55, 75, 100}

ProjectedTotals == {0, 27, 19611423}

Scenarios ==
    UNION {{[i \in 1..n |-> [name |-> ScenarioName(i), turnout |-> t[i],
                             description |-> "scenario"]] :
              t \in [1..n -> ScenarioTurnouts]} : n \in 0..MaxScenarios}

Prediction(total, scenarios) ==
    [total_projected_voters |-> total, new_voters |-> 5700000,
     youth_percentage |-> 65, scenarios |-> scenarios,
     factors |-> <<"Youth registration", "Coalition formation">>]

BasePrediction ==
    Prediction(27820000,
               << [name |-> "High Youth Turnout", turnout |-> 75, description |-> "scenario"],
                  [name |-> "Moderate Turnout", turnout |-> 55, description |-> "scenario"] >>)

ElectionDoc(elections, prediction) ==
    [elections |-> elections, predictions_2027 |-> prediction]

BaseElectionDoc == ElectionDoc(BaseElections, BasePrediction)

ElectionDocs ==
    {ElectionDoc(e, BasePrediction) : e \in ElectionsVariants}
    \cup {ElectionDoc(BaseElections, Prediction(total, sc)) :
            total \in ProjectedTotals, sc \in Scenarios}
    \cup {Without(BaseElectionDoc, "predictions_2027")}

\* the boundary document: a feature collection keyed by properties.COUNTY
BoundaryDoc ==
    [type |-> "FeatureCollection",
     features |-> <<"Nairobi", "Tharaka", "Keiyo-Marakwet">>]

(***************************************************************************)
(* Data Loader, app.py 76-98.  A loader's result: whether the exception of *)
(* open / json.load left the function, the value returned, and the error   *)
(* elements it emitted.                                                    *)
(***************************************************************************)
ErrLoadingGeoJSON == "Error loading GeoJSON"
MapUnavailable == "GeoJSON file not found. Map visualization is unavailable."

\* a loader that swallows the failure and returns an empty document
load_election_data_swallow(readable, content) ==
    [raised |-> FALSE, value |-> IF readable THEN content ELSE EmptyDict, errors |-> {}]

load_election_data(readable, content) ==
    IF readable
    THEN [raised |-> FALSE, value |-> content, errors |-> {}]
    ELSE [raised |-> TRUE, value |-> None, errors |-> {}]

load_county_data(readable, content) ==
    IF readable
    THEN [raised |-> FALSE, value |-> content, errors |-> {}]
    ELSE [raised |-> TRUE, value |-> None, errors |-> {}]

\* a boundary loader without the try / except
load_geojson_unguarded(readable, content) ==
    IF readable
    THEN [raised |-> FALSE, value |-> content, errors |-> {}]
    ELSE [raised |-> TRUE, value |-> None, errors |-> {}]

load_geojson(readable, content) ==
    IF readable
    THEN [raised |-> FALSE, value |-> content, errors |-> {}]
    ELSE [raised |-> FALSE, value |-> None, errors |-> {ErrLoadingGeoJSON}]

\* a cache that takes a stored None for a missing entry
MemoizedUnlessNone(entry, result) ==
    IF Len(entry) > 0
    THEN [raised |-> FALSE, value |-> entry[1].value, errors |-> entry[1].errors,
          entry |-> entry, how |-> "hit"]
    ELSE IF result.raised
    THEN [raised |-> TRUE, value |-> None, errors |-> {}, entry |-> entry,
          how |-> "failed"]
    ELSE [raised |-> FALSE, value |-> result.value, errors |-> result.errors,
          entry |-> IF IsNone(result.value)
                    THEN entry
                    ELSE <<[value |-> result.value, errors |-> result.errors]>>,
          how |-> "read"]

\* a decorator that stores nothing: the function runs on every call
MemoizedNever(entry, result) ==
    IF result.raised
    THEN [raised |-> TRUE, value |-> None, errors |-> {}, entry |-> entry,
          how |-> "failed"]
    ELSE [raised |-> FALSE, value |-> result.value, errors |-> result.errors,
          entry |-> entry, how |-> "read"]

\* @st.cache_data: a stored entry is returned, and the elements the function
\* emitted when it ran are replayed; a call that raises stores nothing.
Memoized(entry, result) ==
    IF Len(entry) > 0
    THEN [raised |-> FALSE, value |-> entry[1].value, errors |-> entry[1].errors,
          entry |-> entry, how |-> "hit"]
    ELSE IF result.raised
    THEN [raised |-> TRUE, value |-> None, errors |-> {}, entry |-> entry,
          how |-> "failed"]
    ELSE [raised |-> FALSE, value |-> result.value, errors |-> result.errors,
          entry |-> <<[value |-> result.value, errors |-> result.errors]>>,
          how |-> "read"]

(***************************************************************************)
(* View procedures.  Each yields the outcome ("rendered" or the exception  *)
(* that left the branch), the messages emitted and the values computed.    *)
(***************************************************************************)
Pages ==
    <<"Overview", "Interactive Map", "Historical Results", "Turnout Trends",
      "Regional Patterns", "County Analysis", "County Predictions 2027",
      "2027 National Predictions">>

NoOut == [view |-> "none"]

Raised(exception) == [outcome |-> exception, messages |-> {}, out |-> NoOut]

Rendered(out_) == [outcome |-> "rendered", messages |-> {}, out |-> out_]

\* app.py 120-191: literals only
Overview ==
    Rendered([view |-> "Overview",
              years |-> ElectionYears,
              turnouts |-> <<5718, 6923, 8591, 7951, 6477>>])

(***************************************************************************)
(* Interactive Map, app.py 194-436.                                        *)
(***************************************************************************)
MapViews ==
    <<"2027 Swing Potential", "2022 Election Results (Ruto %)",
      "2022 Election Results (Odinga %)", "2027 Projected Voters",
      "Youth Percentage", "2022 Turnout">>

swing_map == [l \in {"Very Low", "Low", "Medium", "High", "Very High"} |->
                CASE l = "Very Low" -> 1 [] l = "Low" -> 2 [] l = "Medium" -> 3
                  [] l = "High" -> 4 [] l = "Very High" -> 5]

\* the subscripts of app.py 219-225 all find their key
MapRowKeysPresent(county_info) ==
    /\ Has(county_info, "prediction_2027")
    /\ Has(county_info, "results_2022")
    /\ Has(county_info, "youth_percentage")
    /\ \A k \in {"swing_potential", "projected_voters", "trend"} :
          Has(county_info["prediction_2027"], k)
    /\ \A k \in {"Ruto", "Odinga", "turnout"} : Has(county_info["results_2022"], k)

\* a row with the join key and the display name exchanged
MapRowSwapped(county_name, county_info) ==
    [County |-> county_name,
     Display_Name |-> get_geojson_name(county_name),
     Swing_Potential |-> county_info["prediction_2027"]["swing_potential"],
     Ruto_2022 |-> county_info["results_2022"]["Ruto"],
     Odinga_2022 |-> county_info["results_2022"]["Odinga"],
     Projected_Voters_2027 |-> county_info["prediction_2027"]["projected_voters"],
     Youth_Percentage |-> county_info["youth_percentage"],
     Turnout_2022 |-> county_info["results_2022"]["turnout"],
     Trend_2027 |-> county_info["prediction_2027"]["trend"]]

\* county_dict, app.py 215-226
MapRow(county_name, county_info) ==
    [County |-> get_geojson_name(county_name),
     Display_Name |-> county_name,
     Swing_Potential |-> county_info["prediction_2027"]["swing_potential"],
     Ruto_2022 |-> county_info["results_2022"]["Ruto"],
     Odinga_2022 |-> county_info["results_2022"]["Odinga"],
     Projected_Voters_2027 |-> county_info["prediction_2027"]["projected_voters"],
     Youth_Percentage |-> county_info["youth_percentage"],
     Turnout_2022 |-> county_info["results_2022"]["turnout"],
     Trend_2027 |-> county_info["prediction_2027"]["trend"]]

\* a map view that builds the map without looking at the load result
InteractiveMapUnchecked(geojson, cdoc, map_view) ==
    LET counties == cdoc["counties"]
    IN  IF \E i \in 1..Len(counties) : ~MapRowKeysPresent(counties[i][2])
        THEN Raised("KeyError")
        ELSE Rendered([view |-> "Interactive Map", map_built |-> TRUE,
                       map_view |-> map_view,
                       map_df |-> [i \in 1..Len(counties) |->
                                     MapRow(counties[i][1], counties[i][2])]])

InteractiveMap(geojson, cdoc, map_view) ==
    IF IsNone(geojson)
    THEN [outcome |-> "rendered", messages |-> {MapUnavailable},
          out |-> [view |-> "Interactive Map", map_built |-> FALSE]]
    ELSE LET counties == cdoc["counties"]
         IN  IF \E i \in 1..Len(counties) : ~MapRowKeysPresent(counties[i][2])
             THEN Raised("KeyError")
             ELSE LET map_df == [i \in 1..Len(counties) |->
                                   MapRow(counties[i][1], counties[i][2])]
                  IN  Rendered(
                        [view |-> "Interactive Map", map_built |-> TRUE,
                         map_view |-> map_view,
                         map_df |-> map_df,
                         Swing_Numeric |->
                            IF map_view = "2027 Swing Potential"
                            THEN [i \in 1..Len(map_df) |->
                                    Get(swing_map, map_df[i].Swing_Potential, "NaN")]
                            ELSE <<>>,
                         very_high |-> Cardinality({i \in 1..Len(map_df) :
                                 map_df[i].Swing_Potential = "Very High"}),
                         high |-> Cardinality({i \in 1..Len(map_df) :
                                 map_df[i].Swing_Potential = "High"})])

(***************************************************************************)
(* County Analysis, app.py 626-739.                                        *)
(***************************************************************************)
\* sorted(list(county_data['counties'].keys())): the selectbox options
CountyOptions(cdoc) == {cdoc["counties"][i][1] : i \in 1..Len(cdoc["counties"])}

\* app.py 662-663
results_2017(county_info) == Get(county_info, "results_2017", EmptyDict)
results_2022(county_info) == Get(county_info, "results_2022", EmptyDict)

\* a shift that subtracts the wrong 2017 candidate
gov_shift_wrong_candidate(county_info) ==
    Get(results_2022(county_info), "Ruto", 0) - Get(results_2017(county_info), "Odinga", 0)

\* app.py 730
gov_shift(county_info) ==
    Get(results_2022(county_info), "Ruto", 0) - Get(results_2017(county_info), "Kenyatta", 0)

\* app.py 731
opp_shift(county_info) ==
    Get(results_2022(county_info), "Odinga", 0) - Get(results_2017(county_info), "Odinga", 0)

CountyAnalysis(cdoc, selected_county) ==
    LET county_info == CountyOf(cdoc["counties"], selected_county)
        turnout_2022 == Get(Get(county_info, "results_2022", EmptyDict), "turnout", 0)
        turnout_2017 == Get(Get(county_info, "results_2017", EmptyDict), "turnout", 0)
    IN  Rendered(
          [view |-> "County Analysis",
           selected_county |-> selected_county,
           population |-> Get(county_info, "population", 0),
           registered_voters_2022 |-> Get(county_info, "registered_voters_2022", 0),
           youth_percentage |-> Get(county_info, "youth_percentage", 0),
           turnout_2017 |-> turnout_2017,
           turnout_2022 |-> turnout_2022,
           turnout_change |-> turnout_2022 - turnout_2017,
           Percentage |-> << Get(results_2017(county_info), "Kenyatta", 0),
                             Get(results_2017(county_info), "Odinga", 0),
                             Get(results_2022(county_info), "Ruto", 0),
                             Get(results_2022(county_info), "Odinga", 0) >>,
           gov_shift |-> gov_shift(county_info),
           opp_shift |-> opp_shift(county_info)])

(***************************************************************************)
(* County Predictions 2027, app.py 742-875.                                *)
(***************************************************************************)
SwingLevels == <<"Very High", "High", "Medium", "Low", "Very Low">>

prediction_2027(county_info) == Get(county_info, "prediction_2027", EmptyDict)

\* app.py 813
swing_potential(county_info) ==
    Get(prediction_2027(county_info), "swing_potential", "Unknown")

\* a grouping that assigns the bucket instead of appending to it
RECURSIVE swing_groups_overwrite(_)
swing_groups_overwrite(items) ==
    IF Len(items) = 0 THEN [l \in Range(SwingLevels) |-> <<>>]
    ELSE LET groups == swing_groups_overwrite(SubSeq(items, 1, Len(items) - 1))
             county_name == items[Len(items)][1]
             sp == swing_potential(items[Len(items)][2])
         IN  IF sp \in DOMAIN groups
             THEN [groups EXCEPT ![sp] = <<county_name>>]
             ELSE groups

\* app.py 804-815: the loop over county_data['counties'].items()
RECURSIVE swing_groups(_)
swing_groups(items) ==
    IF Len(items) = 0 THEN [l \in Range(SwingLevels) |-> <<>>]
    ELSE LET groups == swing_groups(SubSeq(items, 1, Len(items) - 1))
             county_name == items[Len(items)][1]
             sp == swing_potential(items[Len(items)][2])
         IN  IF sp \in DOMAIN groups
             THEN [groups EXCEPT ![sp] = Append(@, county_name)]
             ELSE groups

\* the expanders laid out from the last category to the first
RECURSIVE ExpandersReversed(_, _)
ExpandersReversed(groups, levels) ==
    IF Len(levels) = 0 THEN <<>>
    ELSE ExpandersReversed(groups, Tail(levels))
         \o (IF Len(groups[levels[1]]) > 0
             THEN <<[swing_level |-> levels[1], counties |-> groups[levels[1]]]>>
             ELSE <<>>)

\* app.py 818-821: one expander per non-empty bucket, in the order of the list
RECURSIVE Expanders(_, _)
Expanders(groups, levels) ==
    IF Len(levels) = 0 THEN <<>>
    ELSE (IF Len(groups[levels[1]]) > 0
          THEN <<[swing_level |-> levels[1], counties |-> groups[levels[1]]]>>
          ELSE <<>>)
         \o Expanders(groups, Tail(levels))

\* app.py 774-783
PredRow(county_name, county_info) ==
    LET pred == prediction_2027(county_info)
    IN  [County |-> county_name,
         Projected_Voters |-> Get(pred, "projected_voters", 0),
         New_Youth_Voters |-> Get(pred, "new_youth_voters", 0),
         Likely_Turnout |-> Get(pred, "likely_turnout", 0),
         Trend |-> Get(pred, "trend", "Unknown"),
         Swing_Potential |-> Get(pred, "swing_potential", "Unknown")]

CountyPredictions(cdoc) ==
    LET counties == cdoc["counties"]
        n == Len(counties)
        battle == [i \in 1..n |->
                     Get(prediction_2027(counties[i][2]), "swing_potential", "")
                        \in {"Very High", "High"}]
        regional_trends == Get(cdoc, "regional_trends", <<>>)
    IN  IF n = 0 THEN Raised("ZeroDivisionError")
        ELSE Rendered(
          [view |-> "County Predictions 2027",
           total_new_youth |->
              SumSeq([i \in 1..n |->
                        Get(prediction_2027(counties[i][2]), "new_youth_voters", 0)]),
           swing_counties |-> Cardinality({i \in 1..n : battle[i]}),
           youth_sum |-> SumSeq([i \in 1..n |->
                                   Get(counties[i][2], "youth_percentage", 0)]),
           county_count |-> n,
           pred_df |-> [i \in 1..n |-> PredRow(counties[i][1], counties[i][2])],
           swing_groups |-> swing_groups(counties),
           expanders |-> Expanders(swing_groups(counties), SwingLevels),
           battleground |-> SelectNames(counties, battle),
           regions |-> [i \in 1..Len(regional_trends) |-> regional_trends[i][1]]])

(***************************************************************************)
(* 2027 National Predictions, app.py 878-1008.                             *)
(***************************************************************************)
\* int(x) of the quotient n / d: truncation toward zero
PyInt(n, d) == IF n >= 0 THEN n \div d ELSE -((-n) \div d)

\* votes rounded to the nearest integer instead of truncated
projected_votes_rounded(total_projected_voters, turnout) ==
    PyInt(total_projected_voters * turnout + 50, 100)

\* the share of voters that stay away
projected_votes_complement(total_projected_voters, turnout) ==
    PyInt(total_projected_voters * (100 - turnout), 100)

\* app.py 951
projected_votes(total_projected_voters, turnout) ==
    PyInt(total_projected_voters * turnout, 100)

ScenarioNote(name) ==
    IF name = "High Youth Turnout" THEN "success"
    ELSE IF name = "Moderate Turnout" THEN "info" ELSE "warning"

NationalPredictions(edoc) ==
    IF ~Has(edoc, "predictions_2027") THEN Raised("KeyError")
    ELSE LET predictions == edoc["predictions_2027"]
             scenarios == predictions["scenarios"]
         IN  Rendered(
               [view |-> "2027 National Predictions",
                total_projected_voters |-> predictions["total_projected_voters"],
                new_voters |-> predictions["new_voters"],
                youth_percentage |-> predictions["youth_percentage"],
                factors |-> predictions["factors"],
                scenarios |->
                   [i \in 1..Len(scenarios) |->
                      [name |-> scenarios[i]["name"],
                       turnout |-> scenarios[i]["turnout"],
                       projected_votes |->
                          projected_votes(predictions["total_projected_voters"],
                                          scenarios[i]["turnout"]),
                       note |-> ScenarioNote(scenarios[i]["name"])]]])

(***************************************************************************)
(* Historical Results, app.py 439-493.                                     *)
(***************************************************************************)
HistoricalResults(edoc, selected_year) ==
    IF ~Has(edoc, "elections") THEN Raised("KeyError")
    ELSE IF ~Has(edoc["elections"], YearKey[selected_year]) THEN Raised("KeyError")
    ELSE LET election == edoc["elections"][YearKey[selected_year]]
             candidates == election["candidates"]
         IN  Rendered(
               [view |-> "Historical Results",
                selected_year |-> selected_year,
                registered_voters |-> election["registered_voters"],
                votes_cast |-> election["votes_cast"],
                turnout |-> election["turnout"],
                display_df |->
                   [i \in 1..Len(candidates) |->
                      [Candidate |-> candidates[i]["name"],
                       Party |-> candidates[i]["party"],
                       Votes |-> candidates[i]["votes"],
                       Percentage |-> candidates[i]["percentage"]]]])

(***************************************************************************)
(* Turnout Trends, app.py 496-569.                                         *)
(***************************************************************************)
SeqMax(s) == CHOOSE m \in Range(s) : \A x \in Range(s) : x <= m
SeqMin(s) == CHOOSE m \in Range(s) : \A x \in Range(s) : m <= x

\* the last election against the first one
turnout_change_since_first(turnouts) == turnouts[Len(turnouts)] - turnouts[1]

\* app.py 560: turnouts[-1] - turnouts[-2]
turnout_change(turnouts) == turnouts[Len(turnouts)] - turnouts[Len(turnouts) - 1]

TurnoutTrends(edoc) ==
    IF ~Has(edoc, "elections") THEN Raised("KeyError")
    ELSE IF \E i \in 1..Len(ElectionYears) :
               ~Has(edoc["elections"], YearKey[ElectionYears[i]])
    THEN Raised("KeyError")
    ELSE LET election(i) == edoc["elections"][YearKey[ElectionYears[i]]]
             n == Len(ElectionYears)
             turnouts == [i \in 1..n |-> election(i)["turnout"]]
         IN  Rendered(
               [view |-> "Turnout Trends",
                years |-> ElectionYears,
                turnouts |-> turnouts,
                registered |-> [i \in 1..n |-> election(i)["registered_voters"]],
                votes_cast |-> [i \in 1..n |-> election(i)["votes_cast"]],
                turnout_sum |-> SumSeq(turnouts),
                turnout_count |-> Len(turnouts),
                highest |-> [value |-> SeqMax(turnouts), label |-> "2013"],
                lowest |-> [value |-> SeqMin(turnouts), label |-> "2002"],
                change |-> [value |-> turnout_change(turnouts),
                            label |-> "Decrease"]])

(***************************************************************************)
(* Regional Patterns, app.py 572-623.                                      *)
(***************************************************************************)
\* sorted(pairs, key=lambda x: x[1], reverse=True): stable, descending
RECURSIVE SortedDesc(_)
SortedDesc(pairs) ==
    IF Len(pairs) = 0 THEN <<>>
    ELSE LET rest == SortedDesc(SubSeq(pairs, 1, Len(pairs) - 1))
             x == pairs[Len(pairs)]
             k == Cardinality({i \in 1..Len(rest) : rest[i][2] >= x[2]})
         IN  SubSeq(rest, 1, k) \o <<x>> \o SubSeq(rest, k + 1, Len(rest))

FirstFour(s) == SubSeq(s, 1, IF Len(s) < 4 THEN Len(s) ELSE 4)

RegionalPatterns(edoc) ==
    IF ~Has(edoc, "elections") THEN Raised("KeyError")
    ELSE IF ~Has(edoc["elections"], "2002") THEN Raised("KeyError")
    ELSE IF ~Has(edoc["elections"]["2002"], "regional") THEN Raised("KeyError")
    ELSE LET regional_data == edoc["elections"]["2002"]["regional"]
             n == Len(regional_data)
             regions == [i \in 1..n |-> regional_data[i][1]]
         IN  IF \E i \in 1..n : \E c \in {"Kibaki", "Kenyatta", "Nyachae"} :
                   ~Has(regional_data[i][2], c)
             THEN Raised("KeyError")
             ELSE Rendered(
                    [view |-> "Regional Patterns",
                     kibaki_regions |->
                        FirstFour(SortedDesc([i \in 1..n |->
                            <<regions[i], regional_data[i][2]["Kibaki"]>>])),
                     kenyatta_regions |->
                        FirstFour(SortedDesc([i \in 1..n |->
                            <<regions[i], regional_data[i][2]["Kenyatta"]>>])),
                     regional_df |->
                        [i \in 1..n |->
                           [Province |-> regions[i],
                            Kibaki |-> regional_data[i][2]["Kibaki"],
                            Kenyatta |-> regional_data[i][2]["Kenyatta"],
                            Nyachae |-> regional_data[i][2]["Nyachae"]]]])

(***************************************************************************)
(* The process: script executions over the cached loaders.                 *)
(***************************************************************************)
FreshLoads == [load_election_data |-> "none", load_county_data |-> "none",
               load_geojson |-> "none"]

EmptyCache == [load_election_data |-> <<>>, load_county_data |-> <<>>,
               load_geojson |-> <<>>]

NoReads == [load_election_data |-> <<>>, load_county_data |-> <<>>,
            load_geojson |-> <<>>]

\* the loader's body ran and returned a value when the call was not served
\* from the cache and did not raise
Recorded(history, r) ==
    IF r.how = "read" /\ Len(history) < MaxReads
    THEN Append(history, r.value)
    ELSE history

FileStates == [election : BOOLEAN, county : BOOLEAN, geojson : BOOLEAN]

\* a process that has just started its first script execution
Init ==
    /\ fs \in FileStates
    /\ \/ election_file \in ElectionDocs /\ county_file = BaseCountyDoc
       \/ election_file = BaseElectionDoc /\ county_file \in CountyDocs
    /\ cache = EmptyCache
    /\ reads = NoReads
    /\ pc = "load_election_data"
    /\ loads = FreshLoads
    /\ data = <<>>
    /\ county_data = <<>>
    /\ kenya_geojson = <<>>
    /\ page = ""
    /\ executed = "none"
    /\ outcome = "pending"
    /\ messages = {}
    /\ out = NoOut
    /\ resolver = NoResolver

Files == <<fs, election_file, county_file>>

\* an uncaught exception ends the script execution
Abort(exception) ==
    /\ pc' = "done"
    /\ outcome' = exception

\* app.py 96
LoadElectionData ==
    /\ pc = "load_election_data"
    /\ LET r == Memoized(cache.load_election_data,
                         load_election_data(fs.election, election_file))
       IN  /\ cache' = [cache EXCEPT !.load_election_data = r.entry]
           /\ loads' = [loads EXCEPT !.load_election_data = r.how]
           /\ reads' = [reads EXCEPT !.load_election_data = Recorded(@, r)]
           /\ messages' = messages \cup r.errors
           /\ IF r.raised
              THEN Abort("DocumentUnavailable") /\ UNCHANGED data
              ELSE pc' = "load_county_data" /\ data' = <<r.value>>
                   /\ UNCHANGED outcome
    /\ UNCHANGED <<Files, county_data, kenya_geojson, page, executed, out, resolver>>

\* app.py 97
LoadCountyData ==
    /\ pc = "load_county_data"
    /\ LET r == Memoized(cache.load_county_data,
                         load_county_data(fs.county, county_file))
       IN  /\ cache' = [cache EXCEPT !.load_county_data = r.entry]
           /\ loads' = [loads EXCEPT !.load_county_data = r.how]
           /\ reads' = [reads EXCEPT !.load_county_data = Recorded(@, r)]
           /\ messages' = messages \cup r.errors
           /\ IF r.raised
              THEN Abort("DocumentUnavailable") /\ UNCHANGED county_data
              ELSE pc' = "load_geojson" /\ county_data' = <<r.value>>
                   /\ UNCHANGED outcome
    /\ UNCHANGED <<Files, data, kenya_geojson, page, executed, out, resolver>>

\* app.py 98
LoadGeojson ==
    /\ pc = "load_geojson"
    /\ LET r == Memoized(cache.load_geojson, load_geojson(fs.geojson, BoundaryDoc))
       IN  /\ cache' = [cache EXCEPT !.load_geojson = r.entry]
           /\ loads' = [loads EXCEPT !.load_geojson = r.how]
           /\ reads' = [reads EXCEPT !.load_geojson = Recorded(@, r)]
           /\ messages' = messages \cup r.errors
           /\ IF r.raised
              THEN Abort("DocumentUnavailable") /\ UNCHANGED kenya_geojson
              ELSE pc' = "navigation" /\ kenya_geojson' = <<r.value>>
                   /\ UNCHANGED outcome
    /\ UNCHANGED <<Files, data, county_data, page, executed, out, resolver>>

\* app.py 100-117: the radio yields the view the user has selected
Navigation ==
    /\ pc = "navigation"
    /\ \E p \in Range(Pages) : page' = p
    /\ pc' = "dispatch"
    /\ UNCHANGED <<Files, cache, reads, loads, data, county_data, kenya_geojson,
                   executed, outcome, messages, out, resolver>>

\* a branch that consumes the county list of the loaded document as it runs
RunViewInPlace(name, result) ==
    /\ pc = "dispatch"
    /\ page = name
    /\ executed' = name
    /\ outcome' = result.outcome
    /\ messages' = messages \cup result.messages
    /\ out' = result.out
    /\ pc' = "done"
    /\ county_data' = <<[county_data[1] EXCEPT !["counties"] = <<>>]>>
    /\ UNCHANGED <<Files, cache, reads, loads, data, kenya_geojson, page, resolver>>

\* the branch of the selected view runs to its end or to an exception
RunView(name, result) ==
    /\ pc = "dispatch"
    /\ page = name
    /\ executed' = name
    /\ outcome' = result.outcome
    /\ messages' = messages \cup result.messages
    /\ out' = result.out
    /\ pc' = "done"
    /\ UNCHANGED <<Files, cache, reads, loads, data, county_data, kenya_geojson,
                   page, resolver>>

ViewOverview == RunView("Overview", Overview)

ViewInteractiveMap ==
    \E map_view \in Range(MapViews) :
        RunView("Interactive Map",
                InteractiveMap(kenya_geojson[1], county_data[1], map_view))

ViewHistoricalResults ==
    \E selected_year \in Range(ElectionYears) :
        RunView("Historical Results", HistoricalResults(data[1], selected_year))

ViewTurnoutTrends == RunView("Turnout Trends", TurnoutTrends(data[1]))

ViewRegionalPatterns == RunView("Regional Patterns", RegionalPatterns(data[1]))

ViewCountyAnalysis ==
    /\ pc = "dispatch"
    /\ \E selected_county \in CountyOptions(county_data[1]) :
          RunView("County Analysis", CountyAnalysis(county_data[1], selected_county))

ViewCountyPredictions ==
    RunView("County Predictions 2027", CountyPredictions(county_data[1]))

ViewNationalPredictions ==
    RunView("2027 National Predictions", NationalPredictions(data[1]))

\* a re-execution that keeps what the previous execution displayed
RerunKeepingOutput ==
    /\ pc = "done"
    /\ \E readable \in BOOLEAN : fs' = [fs EXCEPT !.geojson = readable]
    /\ pc' = "load_election_data"
    /\ loads' = FreshLoads
    /\ data' = <<>>
    /\ county_data' = <<>>
    /\ kenya_geojson' = <<>>
    /\ page' = ""
    /\ executed' = "none"
    /\ outcome' = "pending"
    /\ UNCHANGED <<election_file, county_file, cache, reads, resolver, messages, out>>

\* a user interaction re-executes the script from its first line; by then the
\* boundary file may have appeared or disappeared
Rerun ==
    /\ pc = "done"
    /\ \E readable \in BOOLEAN : fs' = [fs EXCEPT !.geojson = readable]
    /\ pc' = "load_election_data"
    /\ loads' = FreshLoads
    /\ data' = <<>>
    /\ county_data' = <<>>
    /\ kenya_geojson' = <<>>
    /\ page' = ""
    /\ executed' = "none"
    /\ outcome' = "pending"
    /\ messages' = {}
    /\ out' = NoOut
    /\ UNCHANGED <<election_file, county_file, cache, reads, resolver>>

Next ==
    \/ LoadElectionData
    \/ LoadCountyData
    \/ LoadGeojson
    \/ Navigation
    \/ ViewOverview
    \/ ViewInteractiveMap
    \/ ViewHistoricalResults
    \/ ViewTurnoutTrends
    \/ ViewRegionalPatterns
    \/ ViewCountyAnalysis
    \/ ViewCountyPredictions
    \/ ViewNationalPredictions
    \/ Rerun

Spec == Init /\ [][Next]_vars

(***************************************************************************)
(* The Name Resolver on its own: the two functions applied to lists of     *)
(* names, and the reverse function applied to the forward one's results.   *)
(***************************************************************************)
NameLists == UNION {[1..n -> Names] : n \in 0..MaxNames}

InitNames ==
    /\ resolver \in {[NoResolver EXCEPT !.input = l] : l \in NameLists}
    /\ fs = [election |-> TRUE, county |-> TRUE, geojson |-> TRUE]
    /\ election_file = BaseElectionDoc
    /\ county_file = BaseCountyDoc
    /\ cache = EmptyCache
    /\ reads = NoReads
    /\ pc = "resolver"
    /\ loads = FreshLoads
    /\ data = <<>>
    /\ county_data = <<>>
    /\ kenya_geojson = <<>>
    /\ page = ""
    /\ executed = "none"
    /\ outcome = "pending"
    /\ messages = {}
    /\ out = NoOut

Dashboard == <<fs, election_file, county_file, cache, reads, pc, loads, data,
               county_data, kenya_geojson, page, executed, outcome, messages, out>>

ResolveNames ==
    /\ resolver.applied = FALSE
    /\ resolver' = [resolver EXCEPT
          !.geo = [i \in 1..Len(resolver.input) |-> get_geojson_name(resolver.input[i])],
          !.data = [i \in 1..Len(resolver.input) |-> get_data_name(resolver.input[i])],
          !.applied = TRUE]
    /\ UNCHANGED Dashboard

RoundTrip ==
    /\ resolver.applied = TRUE
    /\ Len(resolver.round) # Len(resolver.geo)
    /\ resolver' = [resolver EXCEPT
          !.round = [i \in 1..Len(resolver.geo) |-> get_data_name(resolver.geo[i])]]
    /\ UNCHANGED Dashboard

NextNames == ResolveNames \/ RoundTrip

SpecNames == InitNames /\ [][NextNames]_vars

(***************************************************************************)
(* Properties of the Name Resolver (checked under SpecNames).              *)
(***************************************************************************)
StatisticalAliases == {COUNTY_NAME_ITEMS[i][1] : i \in 1..Len(COUNTY_NAME_ITEMS)}
GeographicAliases == {COUNTY_NAME_ITEMS[i][2] : i \in 1..Len(COUNTY_NAME_ITEMS)}

\* C1: the resolver equals the alias table with identity fallback: a
\* statistical alias S of a pair (S, G) resolves to G, a geographic alias G
\* resolves back to S, a name on neither side of the table is returned
\* unchanged by both functions, and both return a result for every name.
C1_ResolverIsAliasTable ==
    resolver.applied =>
        /\ Len(resolver.geo) = Len(resolver.input)
        /\ Len(resolver.data) = Len(resolver.input)
        /\ \A i \in 1..Len(resolver.input) :
              /\ \A p \in 1..Len(COUNTY_NAME_ITEMS) :
                    /\ resolver.input[i] = COUNTY_NAME_ITEMS[p][1]
                          => resolver.geo[i] = COUNTY_NAME_ITEMS[p][2]
                    /\ resolver.input[i] = COUNTY_NAME_ITEMS[p][2]
                          => resolver.data[i] = COUNTY_NAME_ITEMS[p][1]
              /\ resolver.input[i] \notin StatisticalAliases \cup GeographicAliases
                    => /\ resolver.geo[i] = resolver.input[i]
                       /\ resolver.data[i] = resolver.input[i]

C1_Witness ==
    /\ resolver.applied
    /\ resolver.input = <<"Tharaka Nithi", "Keiyo-Marakwet", "Nairobi">>
    /\ resolver.geo = <<"Tharaka", "Keiyo-Marakwet", "Nairobi">>
    /\ resolver.data = <<"Tharaka Nithi", "Elgeyo Marakwet", "Nairobi">>

RoundTripDone == resolver.applied /\ Len(resolver.round) = Len(resolver.input)

\* C2 as stated: get_data_name(get_geojson_name(S)) = S for every name S.
C2_RoundTripIdentityForAll ==
    RoundTripDone =>
        \A i \in 1..Len(resolver.input) : resolver.round[i] = resolver.input[i]

\* C2 as amended: the round trip returns S for every name S that is not the
\* geographic side of an alias pair; for the geographic side G of a pair
\* (S, G) it returns S, not G.
C2_RoundTripIdentityOffGeographicAliases ==
    RoundTripDone =>
        \A i \in 1..Len(resolver.input) :
            /\ resolver.input[i] \notin GeographicAliases
                  => resolver.round[i] = resolver.input[i]
            /\ \A p \in 1..Len(COUNTY_NAME_ITEMS) :
                  resolver.input[i] = COUNTY_NAME_ITEMS[p][2]
                     => resolver.round[i] = COUNTY_NAME_ITEMS[p][1]

C2_Witness ==
    /\ RoundTripDone
    /\ resolver.input = <<"Tharaka Nithi", "Tharaka", "Mombasa">>
    /\ resolver.round = <<"Tharaka Nithi", "Tharaka Nithi", "Mombasa">>

(***************************************************************************)
(* Properties of the dashboard (checked under Spec).                       *)
(***************************************************************************)
Finished(view) == pc = "done" /\ executed = view
RenderedView(view) == Finished(view) /\ outcome = "rendered"

\* the county document read straight from the file format: the field of a
\* nested object, or the default where the object or the field is absent
Field(county_info, object, field, default) ==
    IF object \in DOMAIN county_info
    THEN IF field \in DOMAIN county_info[object]
         THEN county_info[object][field] ELSE default
    ELSE default

LoadedCounties == county_data[1]["counties"]

\* C3: a county that lacks an optional nested object or field never aborts
\* a per-county view (Interactive Map, County Analysis, County Predictions
\* 2027): the view renders, and the metrics that depend on the missing
\* field are 0 or "Unknown".
C3_MissingFieldsNeverAbort ==
    /\ Finished("Interactive Map") => outcome = "rendered"
    /\ Finished("County Analysis") =>
          /\ outcome = "rendered"
          /\ LET info == CountyOf(LoadedCounties, out.selected_county)
             IN  /\ "results_2017" \notin DOMAIN info =>
                       out.Percentage[1] = 0 /\ out.Percentage[2] = 0
                                             /\ out.turnout_2017 = 0
                 /\ "results_2022" \notin DOMAIN info =>
                       out.Percentage[3] = 0 /\ out.Percentage[4] = 0
                                             /\ out.turnout_2022 = 0
                 /\ "youth_percentage" \notin DOMAIN info => out.youth_percentage = 0
    /\ Finished("County Predictions 2027") =>
          /\ outcome = "rendered"
          /\ \A i \in 1..Len(LoadedCounties) :
                "prediction_2027" \notin DOMAIN LoadedCounties[i][2] =>
                    /\ out.pred_df[i].Projected_Voters = 0
                    /\ out.pred_df[i].New_Youth_Voters = 0
                    /\ out.pred_df[i].Likely_Turnout = 0
                    /\ out.pred_df[i].Trend = "Unknown"
                    /\ out.pred_df[i].Swing_Potential = "Unknown"

\* the category of a county in the document, "Unknown" where it carries none
CategoryOf(county_info) ==
    Field(county_info, "prediction_2027", "swing_potential", "Unknown")

Categorised(county_info) == CategoryOf(county_info) \in Range(SwingLevels)

BucketsOf(county_name) ==
    {l \in Range(SwingLevels) : county_name \in Range(out.swing_groups[l])}

BucketSizes == SumSeq([i \in 1..Len(SwingLevels) |-> Len(out.swing_groups[SwingLevels[i]])])

\* C4 as stated: every county of the document is in exactly one of the five
\* buckets and the bucket sizes sum to the number of counties.
C4_GroupsPartitionAllCounties ==
    RenderedView("County Predictions 2027") =>
        /\ \A i \in 1..Len(LoadedCounties) :
              Cardinality(BucketsOf(LoadedCounties[i][1])) = 1
        /\ BucketSizes = Len(LoadedCounties)

\* C4 as amended: the buckets partition the counties that carry one of the
\* five categories: such a county is in exactly one bucket, the one of its
\* category, and listed there once; a county whose swing potential is
\* missing is in no bucket; the bucket sizes sum to the number of counties
\* that carry a category, which is the number of counties when all do.
C4_GroupsPartitionCategorisedCounties ==
    RenderedView("County Predictions 2027") =>
        /\ \A i \in 1..Len(LoadedCounties) :
              LET name == LoadedCounties[i][1]
                  info == LoadedCounties[i][2]
              IN  IF Categorised(info)
                  THEN /\ BucketsOf(name) = {CategoryOf(info)}
                       /\ Cardinality({k \in 1..Len(out.swing_groups[CategoryOf(info)]) :
                             out.swing_groups[CategoryOf(info)][k] = name}) = 1
                  ELSE BucketsOf(name) = {}
        /\ BucketSizes = Cardinality({i \in 1..Len(LoadedCounties) :
                                        Categorised(LoadedCounties[i][2])})
        /\ (\A i \in 1..Len(LoadedCounties) : Categorised(LoadedCounties[i][2]))
              => BucketSizes = Len(LoadedCounties)

C4_Witness ==
    /\ RenderedView("County Predictions 2027")
    /\ \E i \in 1..Len(LoadedCounties) : ~Categorised(LoadedCounties[i][2])
    /\ \E j \in 1..Len(LoadedCounties) : Categorised(LoadedCounties[j][2])
    /\ BucketSizes = Len(LoadedCounties) - 1

BoundaryLoadFailed == Len(kenya_geojson) = 1 /\ IsNone(kenya_geojson[1])

OtherViews == Range(Pages) \ {"Interactive Map"}

\* an election document with every key the election views subscript
ElectionDocComplete(edoc) ==
    /\ {"elections", "predictions_2027"} \subseteq DOMAIN edoc
    /\ \A i \in 1..Len(ElectionYears) : YearKey[ElectionYears[i]] \in DOMAIN edoc["elections"]
    /\ "regional" \in DOMAIN edoc["elections"]["2002"]
    /\ \A i \in 1..Len(edoc["elections"]["2002"]["regional"]) :
          {"Kibaki", "Kenyatta", "Nyachae"}
             \subseteq DOMAIN edoc["elections"]["2002"]["regional"][i][2]

\* C5: a failed boundary load does not stop the process: load_geojson
\* returns None instead of raising, and every view other than Interactive
\* Map that is selected afterwards is executed and renders.
C5_BoundaryFailureNotFatal ==
    /\ loads.load_geojson # "failed"
    /\ (loads.load_geojson = "read" /\ ~fs.geojson) => BoundaryLoadFailed
    /\ (BoundaryLoadFailed /\ pc = "done" /\ page \in OtherViews
          /\ ElectionDocComplete(data[1]))
          => /\ executed = page
             /\ outcome = "rendered"
             /\ out.view = page

C5_Witness ==
    /\ BoundaryLoadFailed
    /\ ~fs.geojson
    /\ loads.load_geojson = "read"
    /\ RenderedView("2027 National Predictions")
    /\ Len(out.scenarios) = MaxScenarios

\* C6 as stated: after a failed boundary load Interactive Map shows the
\* unavailable message and builds no map, and while any other view is
\* selected neither a boundary-load error nor the unavailable message is
\* emitted.
C6_OnlyMapReportsBoundaryFailure ==
    (BoundaryLoadFailed /\ pc = "done") =>
        /\ page = "Interactive Map" =>
              /\ MapUnavailable \in messages
              /\ out.map_built = FALSE
        /\ page \in OtherViews =>
              messages \cap {ErrLoadingGeoJSON, MapUnavailable} = {}

\* C6 as amended: after a failed boundary load Interactive Map shows the
\* unavailable message and builds no map, and the unavailable message is
\* emitted while no other view is selected; the loader's own "Error loading
\* GeoJSON" element is emitted by the execution that performs the failed
\* load, whichever view is selected in it.
C6_UnavailableOnlyInMapView ==
    /\ (BoundaryLoadFailed /\ pc = "done") =>
          /\ page = "Interactive Map" =>
                /\ executed = page
                /\ outcome = "rendered"
                /\ MapUnavailable \in messages
                /\ out.map_built = FALSE
          /\ page \in OtherViews => MapUnavailable \notin messages
    /\ MapUnavailable \in messages => BoundaryLoadFailed /\ page = "Interactive Map"
    /\ (BoundaryLoadFailed /\ loads.load_geojson = "read")
          => ErrLoadingGeoJSON \in messages

C6_Witness ==
    /\ BoundaryLoadFailed
    /\ RenderedView("Interactive Map")
    /\ MapUnavailable \in messages
    /\ ErrLoadingGeoJSON \in messages
    /\ out.map_built = FALSE

\* C7: a failure to load the election document or the county document is
\* fatal to rendering: the execution ends with the loader's exception and
\* no view procedure runs, whichever view is selected.
C7_RequiredLoadFailureIsFatal ==
    /\ (~fs.election \/ ~fs.county) =>
          /\ executed = "none"
          /\ out = NoOut
          /\ pc \in {"load_election_data", "load_county_data", "done"}
          /\ pc = "done" => outcome = "DocumentUnavailable"
    /\ ("failed" \in {loads.load_election_data, loads.load_county_data}) =>
          /\ pc = "done"
          /\ executed = "none"
          /\ outcome = "DocumentUnavailable"
    /\ (~fs.election /\ pc # "load_election_data")
          => loads.load_election_data = "failed"
    /\ (~fs.county /\ pc \notin {"load_election_data", "load_county_data"})
          => "failed" \in {loads.load_election_data, loads.load_county_data}

C7_Witness ==
    /\ pc = "done"
    /\ fs.election /\ ~fs.county
    /\ loads.load_election_data = "hit"
    /\ loads.load_county_data = "failed"
    /\ executed = "none"

\* C8: County Analysis yields government coalition shift = 2022 Ruto % -
\* 2017 Kenyatta % and opposition shift = 2022 Odinga % - 2017 Odinga %,
\* a missing results object or candidate field counting as 0; Kenyatta
\* 54.0, Odinga 44.9, Ruto 50.5, Odinga 48.8 give -3.5 and +3.9.
C8_ShiftsOfSelectedCounty ==
    RenderedView("County Analysis") =>
        LET info == CountyOf(LoadedCounties, out.selected_county)
            Kenyatta17 == Field(info, "results_2017", "Kenyatta", 0)
            Odinga17 == Field(info, "results_2017", "Odinga", 0)
            Ruto22 == Field(info, "results_2022", "Ruto", 0)
            Odinga22 == Field(info, "results_2022", "Odinga", 0)
        IN  /\ out.gov_shift = Ruto22 - Kenyatta17
            /\ out.opp_shift = Odinga22 - Odinga17
            /\ (Kenyatta17 = 540 /\ Odinga17 = 449 /\ Ruto22 = 505 /\ Odinga22 = 488)
                  => out.gov_shift = -35 /\ out.opp_shift = 39

C8_Witness ==
    /\ RenderedView("County Analysis")
    /\ out.gov_shift = -35
    /\ out.opp_shift = 39
    /\ \E i \in 1..Len(LoadedCounties) :
          /\ "results_2017" \notin DOMAIN LoadedCounties[i][2]
          /\ LoadedCounties[i][1] # out.selected_county

LoadedPrediction == data[1]["predictions_2027"]

\* C9: for every scenario of the predictions document the projected votes
\* cast is the integer floor(total_projected_voters * turnout / 100) of the
\* singleton's total and the scenario's own turnout.
C9_ProjectedVotesIsFloor ==
    RenderedView("2027 National Predictions") =>
        /\ Len(out.scenarios) = Len(LoadedPrediction["scenarios"])
        /\ \A i \in 1..Len(out.scenarios) :
              LET exact == LoadedPrediction["total_projected_voters"]
                              * LoadedPrediction["scenarios"][i]["turnout"]
                  votes == out.scenarios[i].projected_votes
              IN  /\ votes \in Int
                  /\ votes * 100 <= exact
                  /\ exact < votes * 100 + 100

C9_Witness ==
    /\ RenderedView("2027 National Predictions")
    /\ LoadedPrediction["total_projected_voters"] = 27
    /\ Len(out.scenarios) = 2
    /\ out.scenarios[1].turnout = 55 /\ out.scenarios[1].projected_votes = 14
    /\ out.scenarios[2].turnout = 75 /\ out.scenarios[2].projected_votes = 20

\* C10: projected votes is monotonic in turnout: of two scenarios over the
\* same total, the one with the lower or equal turnout has the lower or
\* equal projected votes.
C10_ProjectedVotesMonotonic ==
    RenderedView("2027 National Predictions") =>
        \A i, j \in 1..Len(out.scenarios) :
            LoadedPrediction["scenarios"][i]["turnout"]
                  <= LoadedPrediction["scenarios"][j]["turnout"]
               => out.scenarios[i].projected_votes <= out.scenarios[j].projected_votes

C10_Witness ==
    /\ RenderedView("2027 National Predictions")
    /\ \E i, j \in 1..Len(out.scenarios) :
          /\ LoadedPrediction["scenarios"][i]["turnout"]
                < LoadedPrediction["scenarios"][j]["turnout"]
          /\ out.scenarios[i].projected_votes < out.scenarios[j].projected_votes

(***************************************************************************)
(* Dispatch, memoization and failed lookups (checked under Spec).          *)
(***************************************************************************)
\* the values the secondary selector of a view can take
Selectors(view, cdoc) ==
    CASE view = "Interactive Map" -> Range(MapViews)
      [] view = "Historical Results" -> Range(ElectionYears)
      [] view = "County Analysis" -> CountyOptions(cdoc)
      [] OTHER -> {"-"}

\* the view procedure of each view identifier, applied to the documents
ViewProcedure(view, selector, edoc, cdoc, geojson) ==
    CASE view = "Overview" -> Overview
      [] view = "Interactive Map" -> InteractiveMap(geojson, cdoc, selector)
      [] view = "Historical Results" -> HistoricalResults(edoc, selector)
      [] view = "Turnout Trends" -> TurnoutTrends(edoc)
      [] view = "Regional Patterns" -> RegionalPatterns(edoc)
      [] view = "County Analysis" -> CountyAnalysis(cdoc, selector)
      [] view = "County Predictions 2027" -> CountyPredictions(cdoc)
      [] view = "2027 National Predictions" -> NationalPredictions(edoc)

\* the elements the cached boundary loader replays in every execution
LoaderMessages == IF IsNone(kenya_geojson[1]) THEN {ErrLoadingGeoJSON} ELSE {}

\* C11: view selection is a stateless dispatch.  An execution that has read
\* the navigation selection enters no view before dispatching and exactly
\* the selected view after it, and what the execution displays is what that
\* view's procedure yields for the current selection, some value of its
\* secondary selector and the three loaded documents -- whatever views the
\* earlier executions of the process showed.
C11_StatelessDispatch ==
    /\ pc \in {"navigation", "dispatch"} => executed = "none" /\ out = NoOut
    /\ (pc = "done" /\ page # "") =>
          /\ executed = page
          /\ page \in Range(Pages)
          /\ \E selector \in Selectors(page, county_data[1]) :
                LET r == ViewProcedure(page, selector, data[1], county_data[1],
                                       kenya_geojson[1])
                IN  /\ outcome = r.outcome
                    /\ out = r.out
                    /\ messages = LoaderMessages \cup r.messages

\* a later execution of the process (its documents come from the cache)
\* that shows the Overview with nothing of an earlier view's output
C11_Witness ==
    /\ RenderedView("Overview")
    /\ loads.load_election_data = "hit"
    /\ BoundaryLoadFailed
    /\ MapUnavailable \notin messages

Loaders == {"load_election_data", "load_county_data", "load_geojson"}

\* the module global a loader's result is bound to
Global(loader) ==
    CASE loader = "load_election_data" -> data
      [] loader = "load_county_data" -> county_data
      [] loader = "load_geojson" -> kenya_geojson

\* C12: across the executions of a process the body of each of the three
\* loaders returns a value at most once, a call is served from the cache
\* only after that, and whenever a module global is bound, in the execution
\* of the load or in any later one, it holds the value that first load
\* returned.
C12_LoadedOnceThenMemoized ==
    \A loader \in Loaders :
        /\ Len(reads[loader]) <= 1
        /\ loads[loader] \in {"read", "hit"} => Len(reads[loader]) = 1
        /\ Len(Global(loader)) = 1 =>
              /\ loads[loader] \in {"read", "hit"}
              /\ Global(loader)[1] = reads[loader][1]

\* a later execution served from the cache alone: it shows the boundary
\* document of the first load although the file can no longer be read
C12_Witness ==
    /\ pc = "done"
    /\ \A loader \in Loaders : loads[loader] = "hit" /\ Len(Global(loader)) = 1
    /\ ~fs.geojson
    /\ kenya_geojson[1] = BoundaryDoc
    /\ RenderedView("Interactive Map") /\ out.map_built

\* an election year of the selector that the loaded document has no record of
MissingYears ==
    {y \in Range(ElectionYears) : ~Has(data[1]["elections"], YearKey[y])}

\* C13: a view that refers to a year or a county the document does not hold
\* ends in a NotFound condition handed to its caller or in a rendered
\* (empty) state, never in an unhandled lookup failure (KeyError).
C13_MissingYearOrCountyIsNotFound ==
    /\ (Finished("Historical Results") \/ Finished("Turnout Trends"))
          /\ Has(data[1], "elections") /\ MissingYears # {}
       => outcome \in {"rendered", "NotFound"}
    /\ Finished("County Analysis") => outcome \in {"rendered", "NotFound"}

\* the 2002 record's regional breakdown, absent or empty
NoRegionalData ==
    /\ Has(data[1], "elections")
    /\ Has(data[1]["elections"], "2002")
    /\ \/ ~Has(data[1]["elections"]["2002"], "regional")
       \/ data[1]["elections"]["2002"]["regional"] = <<>>

\* C14: when the 2002 record has no regional breakdown (key absent or
\* mapping empty) Regional Patterns renders a table with zero rows and
\* does not raise.
C14_NoRegionalDataRendersEmptyTable ==
    (Finished("Regional Patterns") /\ NoRegionalData) =>
        /\ outcome = "rendered"
        /\ out.regional_df = <<>>

(***************************************************************************)
(* Order of the expanders and the turnout table (checked under Spec).      *)
(***************************************************************************)
LevelIndex(swing_level) ==
    CHOOSE i \in 1..Len(SwingLevels) : SwingLevels[i] = swing_level

\* position of a county in the document's insertion order
DocIndex(county_name) ==
    CHOOSE i \in 1..Len(LoadedCounties) : LoadedCounties[i][1] = county_name

\* C15: the expanders of County Predictions 2027 come in the fixed order Very
\* High, High, Medium, Low, Very Low, one for each category that some county
\* carries; an expander lists exactly the counties of its category, in the
\* order in which the document holds them.
C15_ExpandersInCategoryThenDocumentOrder ==
    RenderedView("County Predictions 2027") =>
        LET e == out.expanders
        IN  /\ \A i, j \in 1..Len(e) :
                  i < j => LevelIndex(e[i].swing_level) < LevelIndex(e[j].swing_level)
            /\ \A l \in Range(SwingLevels) :
                  (\E i \in 1..Len(LoadedCounties) : CategoryOf(LoadedCounties[i][2]) = l)
                     <=> (\E k \in 1..Len(e) : e[k].swing_level = l)
            /\ \A k \in 1..Len(e) :
                  /\ e[k].swing_level \in Range(SwingLevels)
                  /\ Range(e[k].counties) =
                        {LoadedCounties[i][1] : i \in
                           {i \in 1..Len(LoadedCounties) :
                              CategoryOf(LoadedCounties[i][2]) = e[k].swing_level}}
                  /\ \A a, b \in 1..Len(e[k].counties) :
                        a < b => DocIndex(e[k].counties[a]) < DocIndex(e[k].counties[b])

\* two counties of one category that the document holds in an order that is
\* not the alphabetical one
C15_Witness ==
    /\ RenderedView("County Predictions 2027")
    /\ Len(out.expanders) = 1
    /\ out.expanders[1].swing_level = "High"
    /\ out.expanders[1].counties = <<"Tharaka Nithi", "Nairobi">>

\* the record of an election year in the loaded document
LoadedElection(year) == data[1]["elections"][YearKey[year]]

\* C16: Turnout Trends builds one row per election year, the years strictly
\* increasing from 2002 to 2022, each row with the registered voters, votes
\* cast and turnout of that year's record; the mean is the sum of the five
\* turnouts (taken in any order) over five; the year-over-year change is
\* turnout(2022) - turnout(2017).
C16_TurnoutRowsMeanAndChange ==
    RenderedView("Turnout Trends") =>
        /\ out.years = <<2002, 2007, 2013, 2017, 2022>>
        /\ \A i, j \in 1..Len(out.years) : i < j => out.years[i] < out.years[j]
        /\ Len(out.turnouts) = 5 /\ Len(out.registered) = 5 /\ Len(out.votes_cast) = 5
        /\ \A i \in 1..5 :
              /\ out.turnouts[i] = LoadedElection(out.years[i])["turnout"]
              /\ out.registered[i] = LoadedElection(out.years[i])["registered_voters"]
              /\ out.votes_cast[i] = LoadedElection(out.years[i])["votes_cast"]
        /\ out.turnout_count = 5
        /\ out.turnout_sum =
              LoadedElection(2022)["turnout"] + LoadedElection(2013)["turnout"]
                + LoadedElection(2002)["turnout"] + LoadedElection(2017)["turnout"]
                + LoadedElection(2007)["turnout"]
        /\ out.change.value =
              LoadedElection(2022)["turnout"] - LoadedElection(2017)["turnout"]

\* the base document: mean 356.60 / 5 = 71.32, change 64.77 - 79.51 = -14.74
C16_Witness ==
    /\ RenderedView("Turnout Trends")
    /\ out.turnouts = <<5718, 6923, 8591, 7951, 6477>>
    /\ out.turnout_sum = 35660
    /\ out.change.value = -1474

(***************************************************************************)
(* The loaded documents are read-only (checked under Spec).                *)
(***************************************************************************)
\* C17: no view writes to a loaded document.  When a view has run, in the
\* first execution or in any later one, each of the three module globals
\* and each cache entry still holds the value its loader returned, and the
\* election and county documents are the content of their files.
C17_ViewsLeaveDocumentsUnchanged ==
    (pc = "done" /\ executed # "none") =>
        /\ \A loader \in Loaders :
              /\ Global(loader) = <<reads[loader][1]>>
              /\ cache[loader][1].value = reads[loader][1]
        /\ data[1] = election_file
        /\ county_data[1] = county_file

\* a later execution, after the map view built its data frame with the
\* derived Swing_Numeric column
C17_Witness ==
    /\ RenderedView("Interactive Map")
    /\ loads.load_county_data = "hit"
    /\ out.map_built
    /\ out.map_view = "2027 Swing Potential"
    /\ Len(out.Swing_Numeric) = Len(county_file["counties"])
    /\ Len(out.Swing_Numeric) = MaxCounties

(***************************************************************************)
(* The alias table as a bijection (checked under SpecNames).               *)
(***************************************************************************)
\* C18: the alias table is injective in both directions and its inverse
\* has as many entries as the table itself: two distinct statistical
\* aliases resolve to distinct geographic names, two distinct geographic
\* aliases resolve back to distinct statistical names, and each direction
\* undoes the other on the table's entries.
C18_AliasTableInjective ==
    /\ Cardinality(DOMAIN GEOJSON_TO_DATA_MAP) = Cardinality(DOMAIN COUNTY_NAME_MAP)
    /\ Cardinality(DOMAIN COUNTY_NAME_MAP) = Len(COUNTY_NAME_ITEMS)
    /\ \A s \in DOMAIN COUNTY_NAME_MAP : GEOJSON_TO_DATA_MAP[COUNTY_NAME_MAP[s]] = s
    /\ \A g \in DOMAIN GEOJSON_TO_DATA_MAP : COUNTY_NAME_MAP[GEOJSON_TO_DATA_MAP[g]] = g
    /\ resolver.applied =>
          \A i, j \in 1..Len(resolver.input) :
              /\ ({resolver.input[i], resolver.input[j]} \subseteq StatisticalAliases
                    /\ resolver.input[i] # resolver.input[j])
                 => resolver.geo[i] # resolver.geo[j]
              /\ ({resolver.input[i], resolver.input[j]} \subseteq GeographicAliases
                    /\ resolver.input[i] # resolver.input[j])
                 => resolver.data[i] # resolver.data[j]
    /\ RoundTripDone =>
          \A i, j \in 1..Len(resolver.geo) :
              ({resolver.geo[i], resolver.geo[j]} \subseteq GeographicAliases
                 /\ resolver.geo[i] # resolver.geo[j])
              => resolver.round[i] # resolver.round[j]

\* both statistical aliases resolved in one list, and their two geographic
\* names resolved back
C18_Witness ==
    /\ RoundTripDone
    /\ resolver.input = <<"Elgeyo Marakwet", "Tharaka Nithi", "Nairobi">>
    /\ resolver.geo = <<"Keiyo-Marakwet", "Tharaka", "Nairobi">>
    /\ resolver.round = <<"Elgeyo Marakwet", "Tharaka Nithi", "Nairobi">>

(***************************************************************************)
(* Join keys of the map table and labels of the turnout statistics         *)
(* (checked under Spec).                                                   *)
(***************************************************************************)
MapBuilt == RenderedView("Interactive Map") /\ out.map_built

\* the geographic name the alias table gives a statistical name
GeographicNameOf(county_name) ==
    IF \E p \in 1..Len(COUNTY_NAME_ITEMS) : COUNTY_NAME_ITEMS[p][1] = county_name
    THEN COUNTY_NAME_ITEMS[CHOOSE p \in 1..Len(COUNTY_NAME_ITEMS) :
                             COUNTY_NAME_ITEMS[p][1] = county_name][2]
    ELSE county_name

\* one county is named by the geographic alias of the other
AliasOfTheOther(name_a, name_b) ==
    \E p \in 1..Len(COUNTY_NAME_ITEMS) :
        \/ name_a = COUNTY_NAME_ITEMS[p][1] /\ name_b = COUNTY_NAME_ITEMS[p][2]
        \/ name_b = COUNTY_NAME_ITEMS[p][1] /\ name_a = COUNTY_NAME_ITEMS[p][2]

\* C19 as stated: the map table has exactly one row per county and the
\* rows' join keys are pairwise distinct for every county document with
\* distinct county names.
C19_JoinKeysPairwiseDistinct ==
    MapBuilt =>
        /\ Len(out.map_df) = Len(LoadedCounties)
        /\ \A i, j \in 1..Len(out.map_df) :
              i # j => out.map_df[i].County # out.map_df[j].County

\* C19 as amended: the map table has exactly one row per county, in document
\* order, keyed by the county's geographic name (its alias, or its own name
\* when it has none); two rows carry the same join key exactly when one
\* county is named by the geographic alias of the other, so the keys are
\* pairwise distinct for every document that holds no such pair.
C19_JoinKeysDistinctUnlessAliasPresent ==
    MapBuilt =>
        /\ Len(out.map_df) = Len(LoadedCounties)
        /\ \A i \in 1..Len(out.map_df) :
              /\ out.map_df[i].Display_Name = LoadedCounties[i][1]
              /\ out.map_df[i].County = GeographicNameOf(LoadedCounties[i][1])
        /\ \A i, j \in 1..Len(out.map_df) :
              i # j =>
                 (out.map_df[i].County = out.map_df[j].County
                    <=> AliasOfTheOther(LoadedCounties[i][1], LoadedCounties[j][1]))

\* an aliased county next to an unaliased one: two rows, two keys
C19_Witness ==
    /\ MapBuilt
    /\ Len(out.map_df) = 2
    /\ out.map_df[1].Display_Name = "Tharaka Nithi" /\ out.map_df[1].County = "Tharaka"
    /\ out.map_df[2].Display_Name = "Nairobi" /\ out.map_df[2].County = "Nairobi"

\* C20: the labels of the Turnout Trends statistics agree with the computed
\* values: the year beside Highest Turnout is a year whose turnout is the
\* maximum, the year beside Lowest Turnout is a year whose turnout is the
\* minimum, and the direction beside 2022 vs 2017 agrees with the sign of
\* turnout(2022) - turnout(2017).
C20_TurnoutLabelsAgreeWithValues ==
    RenderedView("Turnout Trends") =>
        /\ \E i \in 1..Len(out.years) :
              /\ YearKey[out.years[i]] = out.highest.label
              /\ out.turnouts[i] = out.highest.value
              /\ \A j \in 1..Len(out.turnouts) : out.turnouts[j] <= out.turnouts[i]
        /\ \E i \in 1..Len(out.years) :
              /\ YearKey[out.years[i]] = out.lowest.label
              /\ out.turnouts[i] = out.lowest.value
              /\ \A j \in 1..Len(out.turnouts) : out.turnouts[i] <= out.turnouts[j]
        /\ out.change.label = "Decrease" =>
              LoadedElection(2022)["turnout"] < LoadedElection(2017)["turnout"]
        /\ out.change.label = "Increase" =>
              LoadedElection(2022)["turnout"] > LoadedElection(2017)["turnout"]

(***************************************************************************)
(* The outcome of the boundary load lasts for the process (checked under   *)
(* Spec, where the boundary file may appear or disappear between           *)
(* executions).                                                            *)
(***************************************************************************)
\* the result of the one run of load_geojson's body, once it has run
FirstBoundaryLoad == reads.load_geojson[1]

\* an execution after the one that loaded the documents
LaterExecution == loads.load_election_data = "hit"

\* C21: the outcome of the boundary load is sticky.  The body of
\* load_geojson runs once in the process; a later execution never reads the
\* file, readable or not.  Once the load has failed (None), the global is
\* None in every execution and every Interactive Map selection reports
\* unavailability and builds no map; once it has succeeded, the global is
\* the loaded document in every execution and no Interactive Map selection
\* reports unavailability.
C21_BoundaryLoadOutcomeIsSticky ==
    /\ Len(reads.load_geojson) <= 1
    /\ (LaterExecution /\ loads.load_geojson # "none") => loads.load_geojson = "hit"
    /\ Len(kenya_geojson) = 1 =>
          /\ Len(reads.load_geojson) = 1
          /\ kenya_geojson[1] = FirstBoundaryLoad
    /\ (Finished("Interactive Map") /\ IsNone(FirstBoundaryLoad)) =>
          /\ outcome = "rendered"
          /\ MapUnavailable \in messages
          /\ out.map_built = FALSE
    /\ (Finished("Interactive Map") /\ ~IsNone(FirstBoundaryLoad)) =>
          /\ MapUnavailable \notin messages
          /\ outcome = "rendered" => out.map_built

\* a later execution selects Interactive Map after a failed load, with the
\* boundary file readable by now: the map is still unavailable
C21_Witness ==
    /\ Finished("Interactive Map")
    /\ LaterExecution
    /\ loads.load_geojson = "hit"
    /\ fs.geojson
    /\ IsNone(FirstBoundaryLoad)
    /\ MapUnavailable \in messages
    /\ out.map_built = FALSE

====
